---- MODULE Spec2Model ----
(***************************************************************************)
(* Model of MockupGenerator (src/create_mockups_2.py): one generator       *)
(* object and one call of create_mockup, stepped stage by stage.           *)
(*                                                                         *)
(* What OpenCV computes from the pixels is abstracted to what the code     *)
(* reads of it:                                                            *)
(*   - a loaded frame is the record [contours, approx, px]: whether        *)
(*     cv2.findContours found any contour, the polygon cv2.approxPolyDP    *)
(*     returns for the largest one, and the channel value of the frame at  *)
(*     one sample pixel p;                                                 *)
(*   - a loaded photo is the record [px]: the channel value the photo      *)
(*     contributes at p when the warp covers p;                            *)
(*   - sample says where p lies: inside the polygon cv2.fillPoly paints    *)
(*     (inside) and inside the region cv2.warpPerspective maps the photo   *)
(*     onto (covered); both are fixed by the two images;                   *)
(*   - cv2.imread returns None for a file it cannot decode (NoImage);      *)
(*   - a raster is the one-element array of its channel value at p.        *)
(* Coordinates are integers (approxPolyDP returns integer pixel            *)
(* coordinates, exactly representable in float32).  inset_ratio is the     *)
(* rational num/den, and inset_corners holds the exact numerators over     *)
(* the common denominator 4*den (InsetScale).                              *)
(***************************************************************************)
EXTENDS Integers, Sequences, FiniteSets, TLC

VARIABLES
    frame,                  \* self.frame: NoImage or [loaded, contours, approx, px]
    photo,                  \* self.photo: NoImage or [loaded, px]
    inset_ratio,            \* self.inset_ratio: [num, den]
    output_path,            \* the argument of create_mockup: NoPath or a path
    sample,                 \* where the sample pixel p lies: [inside, covered]
    ordered_frame_corners,  \* self.ordered_frame_corners: None or 4 points
    inset_corners,          \* self.inset_corners: None or 4 scaled points
    warped_photo,           \* the raster warp_photo returned: None or <<value at p>>
    mask,                   \* the mask of combine_images: None or <<value at p>>
    final_image,            \* the raster combine_images returned: None or <<value at p>>
    pc,                     \* position in create_mockup
    err,                    \* the exception that ended the call, or NoError
    stages,                 \* the stages entered by this call, in order
    writes                  \* number of cv2.imwrite calls

vars == <<frame, photo, inset_ratio, output_path, sample, ordered_frame_corners,
          inset_corners, warped_photo, mask, final_image, pc, err, stages,
          writes>>

\* None in a field that holds an array (corners, rasters): the empty array.
None == <<>>
\* What cv2.imread returns for a file it cannot decode (None).
NoImage == [loaded |-> FALSE]
\* output_path=None, and err when no exception was raised.
NoPath == "None"
NoError == "None"

\* ------------------------------------------------------------------ bounds

\* Polygon vertices are drawn from the grid 0..MaxCoord x 0..MaxCoord.
MaxCoord == 2

\* ------------------------------------------------------------ error kinds

\* The exception detect_frame raises when no quadrilateral is found: the
\* explicit raise of line 40, and max() of an empty sequence at line 31.
FrameNotFound == "ValueError"
\* cv2.cvtColor applied to None (the frame was not decoded).
Cv2Error == "cv2.error"
\* self.photo.shape when self.photo is None.
AttributeError == "AttributeError"

\* --------------------------------------------------------------- geometry

Coords == 0..MaxCoord
Point == Coords \X Coords

Quads == [1..4 -> Point]

\* frame_corners.sum(axis=1)
Sums(c) == [i \in 1..Len(c) |-> c[i][1] + c[i][2]]

\* np.diff(frame_corners, axis=1): y - x of every row
Diffs(c) == [i \in 1..Len(c) |-> c[i][2] - c[i][1]]

\* A variant of ArgMin: the index after the one np.argmin gives.
ArgMinShifted(v) ==
    LET i == CHOOSE i \in 1..Len(v) :
                 /\ \A j \in 1..Len(v) : v[i] <= v[j]
                 /\ \A j \in 1..(i - 1) : v[j] > v[i]
    IN  (i % Len(v)) + 1

\* np.argmin: the first index holding the minimum
ArgMin(v) ==
    CHOOSE i \in 1..Len(v) :
        /\ \A j \in 1..Len(v) : v[i] <= v[j]
        /\ \A j \in 1..(i - 1) : v[j] > v[i]

\* np.argmax: the first index holding the maximum
ArgMax(v) ==
    CHOOSE i \in 1..Len(v) :
        /\ \A j \in 1..Len(v) : v[i] >= v[j]
        /\ \A j \in 1..(i - 1) : v[j] < v[i]

\* A variant of SortCorners: the differences taken as x - y.
SortCornersDiffReversed(c) ==
    << c[ArgMin(Sums(c))],
       c[ArgMax(Diffs(c))],
       c[ArgMax(Sums(c))],
       c[ArgMin(Diffs(c))] >>

\* A variant of SortCorners: both extremes of x+y listed before those of y-x.
SortCornersSumsFirst(c) ==
    << c[ArgMin(Sums(c))],
       c[ArgMax(Sums(c))],
       c[ArgMin(Diffs(c))],
       c[ArgMax(Diffs(c))] >>

\* The array _sort_corners stores in self.ordered_frame_corners.
SortCorners(c) ==
    << c[ArgMin(Sums(c))],
       c[ArgMin(Diffs(c))],
       c[ArgMax(Sums(c))],
       c[ArgMax(Diffs(c))] >>

\* The denominator of the numbers held in inset_corners.
InsetScale(r) == 4 * r.den

\* A variant of CalculateInsetCorners: the two weights exchanged,
\* corners*ratio + mean(corners)*(1 - ratio).
CalculateInsetCornersWeightsSwapped(c, r) ==
    LET sx == c[1][1] + c[2][1] + c[3][1] + c[4][1]
        sy == c[1][2] + c[2][2] + c[3][2] + c[4][2]
    IN  [i \in 1..4 |->
            << 4 * r.num * c[i][1] + (r.den - r.num) * sx,
               4 * r.num * c[i][2] + (r.den - r.num) * sy >>]

\* _calculate_inset_corners: corners*(1 - ratio) + mean(corners)*ratio,
\* every coordinate multiplied by InsetScale(r).
CalculateInsetCorners(c, r) ==
    LET sx == c[1][1] + c[2][1] + c[3][1] + c[4][1]
        sy == c[1][2] + c[2][2] + c[3][2] + c[4][2]
    IN  [i \in 1..4 |->
            << 4 * (r.den - r.num) * c[i][1] + r.num * sx,
               4 * (r.den - r.num) * c[i][2] + r.num * sy >>]

\* ------------------------------------------------------------ pixel maths

\* The largest value of a uint8 channel, and the colour fillPoly paints.
MaxChannel == 255
Channel == 0..MaxChannel

\* cv2.bitwise_and of two 8-bit channel values
RECURSIVE BitAnd8(_, _, _)
BitAnd8(a, b, n) ==
    IF n = 0 THEN 0
    ELSE (IF a % 2 = 1 /\ b % 2 = 1 THEN 1 ELSE 0)
         + 2 * BitAnd8(a \div 2, b \div 2, n - 1)

bitwise_and(a, b) == BitAnd8(a, b, 8)

\* cv2.bitwise_not of an 8-bit channel value
bitwise_not(a) == MaxChannel - a

\* cv2.add on uint8: saturating
add(a, b) == IF a + b > MaxChannel THEN MaxChannel ELSE a + b

\* The value fillPoly leaves in the mask at p (colour 255, no anti-aliasing).
MaskAt(inside) == IF inside THEN MaxChannel ELSE 0

\* A variant of CombinePixel: the frame masked with the mask itself, the
\* bitwise_not left out.
CombinePixelMaskNotInverted(frame_px, warped_px, mask_px) ==
    LET frame_with_photo_area == bitwise_and(frame_px, mask_px)
    IN  add(frame_with_photo_area, bitwise_and(warped_px, mask_px))

\* combine_images at one pixel and channel: lines 93-95
CombinePixel(frame_px, warped_px, mask_px) ==
    LET frame_mask == bitwise_not(mask_px)
        frame_with_photo_area == bitwise_and(frame_px, frame_mask)
    IN  add(frame_with_photo_area, bitwise_and(warped_px, mask_px))

\* ----------------------------------------------------------------- inputs

\* inset_ratio=0.05, the default of __init__
DefaultRatio == [num |-> 1, den |-> 20]

LoadedFrame(poly, px) ==
    [loaded |-> TRUE, contours |-> "some", approx |-> poly, px |-> px]
BlankFrame(px) ==
    [loaded |-> TRUE, contours |-> "none", approx |-> <<>>, px |-> px]
LoadedPhoto(px) == [loaded |-> TRUE, px |-> px]

OutPath == "./images/outputs/mockup_from_solution2.png"

\* Polygons approxPolyDP may return that are no quadrilateral.
Poly3 == << <<0, 0>>, <<MaxCoord, 0>>, <<0, MaxCoord>> >>
Poly5 == << <<0, 0>>, <<MaxCoord, 0>>, <<MaxCoord, MaxCoord>>,
            <<1, MaxCoord>>, <<0, 1>> >>
\* An axis-aligned rectangle and a diamond (a square turned by 45 degrees).
Rect == << <<0, 0>>, <<MaxCoord, 0>>, <<MaxCoord, MaxCoord>>, <<0, MaxCoord>> >>
Diamond == << <<1, 0>>, <<2, 1>>, <<1, 2>>, <<0, 1>> >>

\* The channel values of the sample pixel where the pixels are not varied.
FramePx == 200
PhotoPx == 100

SmallFrames ==
    {NoImage, BlankFrame(FramePx)}
        \cup {LoadedFrame(p, FramePx) : p \in {Poly3, Poly5, Rect, Diamond}}

GridFrames == {LoadedFrame(q, FramePx) : q \in Quads}

Samples == [inside : BOOLEAN, covered : BOOLEAN]
\* A pixel of the photo area: painted in the mask and covered by the warp.
InnerSample == [inside |-> TRUE, covered |-> TRUE]

\* The state __init__ leaves (lines 14-18), before create_mockup is called.
InitWith(Frames, Photos, Paths, Ratios, Places) ==
    /\ frame \in Frames
    /\ photo \in Photos
    /\ inset_ratio \in Ratios
    /\ output_path \in Paths
    /\ sample \in Places
    /\ ordered_frame_corners = None
    /\ inset_corners = None
    /\ warped_photo = None
    /\ mask = None
    /\ final_image = None
    /\ pc = "detect"
    /\ err = NoError
    /\ stages = <<>>
    /\ writes = 0

\* Every 4-point polygon of the grid with the configuration of the module
\* body (lines 116-118), and a few frames with every configuration.
Init ==
    \/ InitWith(GridFrames, {LoadedPhoto(PhotoPx)}, {OutPath}, {DefaultRatio},
                {InnerSample})
    \/ InitWith(SmallFrames, {NoImage, LoadedPhoto(PhotoPx)}, {NoPath, OutPath},
                {DefaultRatio}, Samples)

\* ---------------------------------------------------------------- actions

\* An exception leaves create_mockup: nothing after the raising stage runs.
Raise(e) ==
    /\ pc' = "failed"
    /\ err' = e

\* A variant of detect_frame: a polygon of more than 4 vertices is accepted
\* and its first four vertices are used (len(approx) >= 4).
detect_frame_at_least_4 ==
    /\ pc = "detect"
    /\ stages' = Append(stages, "detect")
    /\ IF ~frame.loaded
       THEN /\ Raise(Cv2Error)
            /\ UNCHANGED <<ordered_frame_corners, inset_corners>>
       ELSE IF frame.contours = "none"
       THEN /\ Raise(FrameNotFound)
            /\ UNCHANGED <<ordered_frame_corners, inset_corners>>
       ELSE IF Len(frame.approx) >= 4
       THEN /\ ordered_frame_corners' = SortCorners(SubSeq(frame.approx, 1, 4))
            /\ inset_corners' =
                   CalculateInsetCorners(SortCorners(SubSeq(frame.approx, 1, 4)),
                                         inset_ratio)
            /\ pc' = "warp"
            /\ err' = err
       ELSE /\ Raise(FrameNotFound)
            /\ UNCHANGED <<ordered_frame_corners, inset_corners>>
    /\ UNCHANGED <<frame, photo, inset_ratio, output_path, sample, warped_photo, mask,
                   final_image, writes>>

\* A variant of detect_frame: with no contour it returns without raising
\* (max(contours, default=None) and an early return).
detect_frame_silent_on_empty ==
    /\ pc = "detect"
    /\ stages' = Append(stages, "detect")
    /\ IF ~frame.loaded
       THEN /\ Raise(Cv2Error)
            /\ UNCHANGED <<ordered_frame_corners, inset_corners>>
       ELSE IF frame.contours = "none"
       THEN /\ pc' = "warp"
            /\ err' = err
            /\ UNCHANGED <<ordered_frame_corners, inset_corners>>
       ELSE IF Len(frame.approx) = 4
       THEN /\ ordered_frame_corners' = SortCorners(frame.approx)
            /\ inset_corners' =
                   CalculateInsetCorners(SortCorners(frame.approx), inset_ratio)
            /\ pc' = "warp"
            /\ err' = err
       ELSE /\ Raise(FrameNotFound)
            /\ UNCHANGED <<ordered_frame_corners, inset_corners>>
    /\ UNCHANGED <<frame, photo, inset_ratio, output_path, sample, warped_photo, mask,
                   final_image, writes>>

\* detect_frame (lines 20-40), with _sort_corners and
\* _calculate_inset_corners (lines 42-66) when a quadrilateral is found.
detect_frame ==
    /\ pc = "detect"
    /\ stages' = Append(stages, "detect")
    /\ IF ~frame.loaded
       THEN /\ Raise(Cv2Error)
            /\ UNCHANGED <<ordered_frame_corners, inset_corners>>
       ELSE IF frame.contours = "none"
       THEN /\ Raise(FrameNotFound)
            /\ UNCHANGED <<ordered_frame_corners, inset_corners>>
       ELSE IF Len(frame.approx) = 4
       THEN /\ ordered_frame_corners' = SortCorners(frame.approx)
            /\ inset_corners' =
                   CalculateInsetCorners(SortCorners(frame.approx), inset_ratio)
            /\ pc' = "warp"
            /\ err' = err
       ELSE /\ Raise(FrameNotFound)
            /\ UNCHANGED <<ordered_frame_corners, inset_corners>>
    /\ UNCHANGED <<frame, photo, inset_ratio, output_path, sample, warped_photo, mask,
                   final_image, writes>>

\* A variant of warp_photo: the failure on an undecoded photo is swallowed
\* and create_mockup goes on to save.
warp_photo_error_swallowed ==
    /\ pc = "warp"
    /\ stages' = Append(stages, "warp")
    /\ IF ~photo.loaded
       THEN /\ pc' = "save"
            /\ err' = err
            /\ warped_photo' = warped_photo
       ELSE /\ warped_photo' = << IF sample.covered THEN photo.px ELSE 0 >>
            /\ pc' = "combine"
            /\ err' = err
    /\ UNCHANGED <<frame, photo, inset_ratio, output_path, sample,
                   ordered_frame_corners, inset_corners, mask, final_image,
                   writes>>

\* warp_photo (lines 68-79).  getPerspectiveTransform solves the 8x8 system
\* without reporting a singular one and warpPerspective returns a raster for
\* any matrix: no check of the corners is made.  At p the raster holds the
\* photo's value where the mapped photo covers p and 0 elsewhere.
warp_photo ==
    /\ pc = "warp"
    /\ stages' = Append(stages, "warp")
    /\ IF ~photo.loaded
       THEN /\ Raise(AttributeError)
            /\ warped_photo' = warped_photo
       ELSE /\ warped_photo' = << IF sample.covered THEN photo.px ELSE 0 >>
            /\ pc' = "combine"
            /\ err' = err
    /\ UNCHANGED <<frame, photo, inset_ratio, output_path, sample,
                   ordered_frame_corners, inset_corners, mask, final_image,
                   writes>>

\* combine_images (lines 81-95) at the sample pixel.
combine_images ==
    /\ pc = "combine"
    /\ stages' = Append(stages, "combine")
    /\ mask' = << MaskAt(sample.inside) >>
    /\ final_image' =
           << CombinePixel(frame.px, warped_photo[1], MaskAt(sample.inside)) >>
    /\ pc' = "save"
    /\ UNCHANGED <<frame, photo, inset_ratio, output_path, sample,
                   ordered_frame_corners, inset_corners, warped_photo, err,
                   writes>>

\* The end of create_mockup (lines 111-113): write when a path was given.
create_mockup_save ==
    /\ pc = "save"
    /\ IF output_path # NoPath
       THEN /\ writes' = writes + 1
            /\ stages' = Append(stages, "write")
       ELSE /\ writes' = writes
            /\ stages' = stages
    /\ pc' = "done"
    /\ UNCHANGED <<frame, photo, inset_ratio, output_path, sample,
                   ordered_frame_corners, inset_corners, warped_photo, mask,
                   final_image, err>>

Next ==
    \/ detect_frame
    \/ warp_photo
    \/ combine_images
    \/ create_mockup_save

Spec == Init /\ [][Next]_vars

\* ------------------------------------------ the end-to-end example (4.2, 8)

Range(s) == {s[i] : i \in DOMAIN s}

\* Every order in which the four vertices of q may be supplied.
Perms(q) == {[i \in 1..4 |-> q[s[i]]] : s \in Permutations(1..4)}

E2ECorners == << <<50, 50>>, <<350, 50>>, <<350, 250>>, <<50, 250>> >>

ZeroRatio == [num |-> 0, den |-> 1]
TenthRatio == [num |-> 1, den |-> 10]

InitInset ==
    InitWith({LoadedFrame(q, FramePx) : q \in Perms(E2ECorners)} \cup SmallFrames,
             {NoImage, LoadedPhoto(PhotoPx)}, {NoPath, OutPath},
             {ZeroRatio, DefaultRatio, TenthRatio}, {InnerSample})

InsetSpec == InitInset /\ [][Next]_vars

\* --------------------------------------------- every pair of channel values

\* Every pair of channel values at a pixel the warp covers, painted in the
\* mask or not, and a few frames with every configuration.
InitPixel ==
    \/ InitWith({LoadedFrame(Rect, v) : v \in Channel},
                {LoadedPhoto(v) : v \in Channel}, {OutPath}, {DefaultRatio},
                {s \in Samples : s.covered})
    \/ InitWith(SmallFrames, {NoImage, LoadedPhoto(PhotoPx)}, {NoPath, OutPath},
                {DefaultRatio}, Samples)

PixelSpec == InitPixel /\ [][Next]_vars

\* ============================================================= properties

AllStages == <<"detect", "warp", "combine", "write">>

\* Error kinds the specification names; the code raises neither.
SingularTransform == "SingularTransform"
InvalidInput == "InvalidInput"

IsPrefix(s, t) == Len(s) <= Len(t) /\ s = SubSeq(t, 1, Len(s))

\* C1: the stages of a create_mockup call run in the order detect, warp,
\* combine, write with none repeated or skipped; a call that failed in
\* detect_frame or warp_photo has written nothing and combined nothing; a
\* call that returned wrote exactly once when a path was given (and not at
\* all otherwise), and only after all of detect, warp and combine.
C1_StagesInOrderWriteLast ==
    /\ IsPrefix(stages, AllStages)
    /\ writes \in {0, 1}
    /\ pc = "failed" =>
           /\ writes = 0
           /\ err # NoError
           /\ final_image = None
           /\ stages \in {<<"detect">>, <<"detect", "warp">>}
    /\ pc = "done" => writes = (IF output_path # NoPath THEN 1 ELSE 0)
    /\ pc # "done" => writes = 0
    /\ writes = 1 => stages = AllStages /\ err = NoError /\ final_image # None

C1_Witness ==
    pc = "done" /\ output_path # NoPath /\ writes = 1 /\ stages = AllStages

\* The polygon approxPolyDP returned is no quadrilateral.
NotAQuad == frame.loaded /\ frame.contours = "some" /\ Len(frame.approx) # 4

\* C2: once detect_frame has run on a frame whose simplified polygon has a
\* vertex count other than 4, the call has failed with the detector's error,
\* ordered_frame_corners and inset_corners are still None, and detect is the
\* only stage that ran (neither warp_photo nor combine_images).
C2_NonQuadLeavesCornersUnset ==
    (NotAQuad /\ pc # "detect") =>
        /\ pc = "failed"
        /\ err = FrameNotFound
        /\ ordered_frame_corners = None
        /\ inset_corners = None
        /\ stages = <<"detect">>
        /\ warped_photo = None

C2_Witness ==
    NotAQuad /\ Len(frame.approx) > 4 /\ pc = "failed" /\ stages = <<"detect">>

\* C3: in the raster combine_images returns, a pixel whose mask value is 0
\* holds the frame's value and a pixel whose mask value is 255 holds the
\* warped photo's value, for every pair of channel values in 0..255; the
\* mask holds no other value.
C3_MaskSelectsSource ==
    final_image # None =>
        /\ mask[1] \in {0, MaxChannel}
        /\ mask[1] = 0 => final_image[1] = frame.px
        /\ mask[1] = MaxChannel => final_image[1] = warped_photo[1]

C3_Witness ==
    /\ final_image # None
    /\ mask[1] = MaxChannel
    /\ frame.px = MaxChannel
    /\ warped_photo[1] = MaxChannel - 1
    /\ final_image[1] = MaxChannel - 1

PairwiseDistinct(v) ==
    \A i, j \in DOMAIN v : i # j => v[i] # v[j]

\* p is one of the points of c, and no point of c has a smaller (larger)
\* x+y or y-x.
HasMinSum(p, c) == p \in Range(c) /\ \A q \in Range(c) : p[1] + p[2] <= q[1] + q[2]
HasMaxSum(p, c) == p \in Range(c) /\ \A q \in Range(c) : p[1] + p[2] >= q[1] + q[2]
HasMinDiff(p, c) == p \in Range(c) /\ \A q \in Range(c) : p[2] - p[1] <= q[2] - q[1]
HasMaxDiff(p, c) == p \in Range(c) /\ \A q \in Range(c) : p[2] - p[1] >= q[2] - q[1]

\* C4: after _sort_corners, ordered_frame_corners is, in this index order,
\* a point of minimum x+y, a point of minimum y-x, a point of maximum x+y
\* and a point of maximum y-x of the four supplied points; and when the sums
\* are pairwise distinct and the differences are pairwise distinct, every
\* order of supplying the same four points gives this same array.
C4_SortedBySumAndDiff ==
    ordered_frame_corners # None =>
        /\ Len(ordered_frame_corners) = 4
        /\ HasMinSum(ordered_frame_corners[1], frame.approx)
        /\ HasMinDiff(ordered_frame_corners[2], frame.approx)
        /\ HasMaxSum(ordered_frame_corners[3], frame.approx)
        /\ HasMaxDiff(ordered_frame_corners[4], frame.approx)
        /\ (PairwiseDistinct(Sums(frame.approx))
                /\ PairwiseDistinct(Diffs(frame.approx))) =>
               \A q \in Perms(frame.approx) :
                   SortCorners(q) = ordered_frame_corners

C4_Witness ==
    /\ ordered_frame_corners # None
    /\ PairwiseDistinct(Sums(frame.approx))
    /\ PairwiseDistinct(Diffs(frame.approx))
    /\ \A i \in 1..4 : ordered_frame_corners[i] # frame.approx[i]

\* The numbers inset_corners holds for the corners c, given as plain
\* coordinates.
Scaled(c, r) == [i \in 1..Len(c) |->
                    << c[i][1] * InsetScale(r), c[i][2] * InsetScale(r) >>]

E2EDetected ==
    /\ frame.loaded
    /\ frame.contours = "some"
    /\ frame.approx \in Perms(E2ECorners)
    /\ inset_ratio = TenthRatio
    /\ inset_corners # None

\* C5 as stated: frame corners (50,50),(350,50),(350,250),(50,250) and
\* inset ratio 0.1 give the inset corners (80,80),(320,80),(320,220),(80,220).
C5_Original ==
    E2EDetected =>
        inset_corners =
            Scaled(<< <<80, 80>>, <<320, 80>>, <<320, 220>>, <<80, 220>> >>,
                   inset_ratio)

\* C5 (amended): frame corners (50,50),(350,50),(350,250),(50,250), in any
\* order, and inset ratio 0.1 give the inset corners
\* (65,60),(335,60),(335,240),(65,240): each corner moved a tenth of the way
\* to the centroid (200,150).
C5_InsetOfExample ==
    E2EDetected =>
        /\ ordered_frame_corners = E2ECorners
        /\ inset_corners =
               Scaled(<< <<65, 60>>, <<335, 60>>, <<335, 240>>, <<65, 240>> >>,
                      inset_ratio)

C5_Witness ==
    E2EDetected /\ frame.approx # E2ECorners /\ pc = "done"

\* ---------------------------------------------------- plane geometry

\* Twice the signed area of the triangle o, a, b.
Cross(o, a, b) ==
    (a[1] - o[1]) * (b[2] - o[2]) - (a[2] - o[2]) * (b[1] - o[1])

Between(u, v, w) == (u <= v /\ v <= w) \/ (w <= v /\ v <= u)

\* p lies on the closed segment a b.
OnSegment(p, a, b) ==
    /\ Cross(a, b, p) = 0
    /\ Between(a[1], p[1], b[1])
    /\ Between(a[2], p[2], b[2])

Sign(n) == IF n > 0 THEN 1 ELSE IF n < 0 THEN 0 - 1 ELSE 0

\* The closed segments a b and c d share a point.
SegmentsMeet(a, b, c, d) ==
    \/ /\ Sign(Cross(a, b, c)) * Sign(Cross(a, b, d)) < 0
       /\ Sign(Cross(c, d, a)) * Sign(Cross(c, d, b)) < 0
    \/ OnSegment(c, a, b)
    \/ OnSegment(d, a, b)
    \/ OnSegment(a, c, d)
    \/ OnSegment(b, c, d)

\* Three of the four points are collinear, or two coincide.
Degenerate(q) ==
    \E i, j, k \in 1..4 :
        i < j /\ j < k /\ Cross(q[i], q[j], q[k]) = 0

\* The closed polygon q[1] q[2] q[3] q[4] is a simple quadrilateral: four
\* different vertices, no three of them on a line, and opposite edges share
\* no point.
IsSimpleQuad(q) ==
    /\ Len(q) = 4
    /\ ~Degenerate(q)
    /\ ~SegmentsMeet(q[1], q[2], q[3], q[4])
    /\ ~SegmentsMeet(q[2], q[3], q[4], q[1])

\* o holds the entries of c, each index of c used exactly once.
IsReorderingOf(o, c) ==
    /\ Len(o) = 4
    /\ \E s \in Permutations(1..4) : \A i \in 1..4 : o[i] = c[s[i]]

\* Each of the four extremes (min x+y, min y-x, max x+y, max y-x) is reached
\* by one point of c only.
ExtremesUnique(c) ==
    /\ Cardinality({p \in Range(c) : HasMinSum(p, c)}) = 1
    /\ Cardinality({p \in Range(c) : HasMinDiff(p, c)}) = 1
    /\ Cardinality({p \in Range(c) : HasMaxSum(p, c)}) = 1
    /\ Cardinality({p \in Range(c) : HasMaxDiff(p, c)}) = 1

\* ... and the four points reaching them are four different points.
ExtremesAtFourVertices(c) ==
    /\ ExtremesUnique(c)
    /\ Cardinality({p \in Range(c) :
           \/ HasMinSum(p, c)
           \/ HasMinDiff(p, c)
           \/ HasMaxSum(p, c)
           \/ HasMaxDiff(p, c)}) = 4

\* C6 as stated, for the accepted polygons that are themselves simple
\* quadrilaterals: whenever ordered_frame_corners is set, it holds the four
\* detected vertices each exactly once and in the stored order they form a
\* simple quadrilateral.
C6_Original ==
    (ordered_frame_corners # None /\ IsSimpleQuad(frame.approx)) =>
        /\ IsReorderingOf(ordered_frame_corners, frame.approx)
        /\ IsSimpleQuad(ordered_frame_corners)

\* C6 (amended): whenever ordered_frame_corners is set and the detected
\* polygon reaches its minimum and maximum of x+y and of y-x at four
\* different vertices, each at one vertex only, ordered_frame_corners holds
\* the four detected vertices each exactly once and in the stored order they
\* form a simple quadrilateral.
C6_SimpleWhenExtremesApart ==
    (ordered_frame_corners # None /\ ExtremesAtFourVertices(frame.approx)) =>
        /\ IsReorderingOf(ordered_frame_corners, frame.approx)
        /\ IsSimpleQuad(ordered_frame_corners)

C6_Witness ==
    /\ ordered_frame_corners # None
    /\ ExtremesAtFourVertices(frame.approx)
    /\ ordered_frame_corners # frame.approx
    /\ ~IsSimpleQuad(frame.approx)

\* C7 as stated, for the arrays that are the vertices of a simple
\* quadrilateral: sorting the sorted corners again gives the same array, ties
\* on x+y or y-x included.
C7_Original ==
    (ordered_frame_corners # None /\ IsSimpleQuad(frame.approx)) =>
        SortCorners(ordered_frame_corners) = ordered_frame_corners

\* C7 (amended): sorting the sorted corners again gives the same array
\* whenever each of the minimum and maximum of x+y and of y-x is reached by
\* one of the supplied points only.
C7_IdempotentWithoutExtremeTies ==
    (ordered_frame_corners # None /\ ExtremesUnique(frame.approx)) =>
        SortCorners(ordered_frame_corners) = ordered_frame_corners

C7_Witness ==
    /\ ordered_frame_corners # None
    /\ ExtremesUnique(frame.approx)
    /\ ~PairwiseDistinct(Sums(frame.approx))
    /\ ordered_frame_corners # frame.approx
    /\ SortCorners(ordered_frame_corners) = ordered_frame_corners

\* The frame was decoded and holds no quadrilateral: no contour at all, or a
\* simplified polygon of another vertex count.
NoQuadInFrame ==
    frame.loaded /\ (frame.contours = "none" \/ Len(frame.approx) # 4)

\* C8: once detect_frame has run on a frame with no contour, or on one whose
\* simplified polygon has a vertex count other than 4, the call has failed
\* with one and the same error kind (the detector's error, ValueError in the
\* code), no corners were set, and no image was produced or written.
C8_BothCasesRaiseDetectorError ==
    (NoQuadInFrame /\ pc # "detect") =>
        /\ pc = "failed"
        /\ err = FrameNotFound
        /\ ordered_frame_corners = None
        /\ final_image = None
        /\ writes = 0

C8_Witness ==
    /\ frame.loaded
    /\ frame.contours = "none"
    /\ pc = "failed"
    /\ err = FrameNotFound

\* C9: once warp_photo has run on a decoded photo with inset corners of which
\* three are collinear or two coincide, the call has failed with
\* SingularTransform, no warped raster was returned, combine_images did not
\* run and nothing was written.  (Stated for the corners detect_frame derives
\* from a polygon that is itself a simple quadrilateral.)
C9_DegenerateCornersFail ==
    (photo.loaded /\ inset_corners # None /\ Degenerate(inset_corners)
        /\ IsSimpleQuad(frame.approx) /\ "warp" \in Range(stages)) =>
        /\ pc = "failed"
        /\ err = SingularTransform
        /\ warped_photo = None
        /\ "combine" \notin Range(stages)
        /\ writes = 0

\* C10: when the photo was not decoded (and the frame was, and holds a
\* quadrilateral), detect_frame does not execute and ordered_frame_corners
\* and inset_corners are never set; once create_mockup has been entered the
\* call has failed with InvalidInput.
C10_InvalidPhotoStopsBeforeDetect ==
    (~photo.loaded /\ frame.loaded /\ IsSimpleQuad(frame.approx)) =>
        /\ "detect" \notin Range(stages)
        /\ ordered_frame_corners = None
        /\ inset_corners = None
        /\ pc \in {"detect", "failed"}
        /\ pc = "failed" => err = InvalidInput

====
